---- MODULE Spec2Model ----
(***************************************************************************)
(* Model of the geopotent land-potential application: the analysis         *)
(* pipeline of potential_app/views.py (AnalysisInputView,                  *)
(* ProcessAnalysisView, ResultsView) and the record creation of            *)
(* potential_app/views_business.py (SubmitProposalView).                   *)
(*                                                                         *)
(* Python values are dynamically typed, so every value carries its type    *)
(* tag: None, int, str, list, dict, and the quotient of a true division.   *)
(* A call that raises yields Raise instead of a value.                     *)
(***************************************************************************)
EXTENDS Integers, Sequences, FiniteSets, TLC

VARIABLES
    analyses,      \* the LandAnalysis table: id -> row, NoRow where no row exists
    proposals,     \* the Proposal table, in creation order
    runs,          \* the ProcessAnalysisView.get requests: run id -> handler frame
    response,      \* the answer of the request being returned, NoneV when there is none
    soil_probe,    \* soil normalization applied to one raw soil mapping
    months_probe,  \* monthly-breakdown normalization applied to one list, twice
    bonds,         \* the Bond table, in creation order
    posts          \* the ProposalDetailView.post requests: request id -> handler frame

vars == <<analyses, proposals, runs, response, soil_probe, months_probe, bonds, posts>>

-----------------------------------------------------------------------------
(* Python values *)

NoneV == [t |-> "none"]

Raise == [t |-> "raise"]

I(n) == [t |-> "int", v |-> n]

S(s) == [t |-> "str", v |-> s]

L(seq) == [t |-> "list", v |-> seq]

D(f) == [t |-> "dict", v |-> f]

\* the float n/d of a true division, kept as the unreduced fraction
Q(n, d) == [t |-> "float", n |-> n, d |-> d]

EmptyDict == D(<<>>)

EmptyList == L(<<>>)

\* bool(v)
Truthy(v) ==
    CASE v.t = "none" -> FALSE
      [] v.t = "int" -> v.v # 0
      [] v.t = "float" -> v.n # 0
      [] v.t = "str" -> v.v # ""
      [] v.t = "list" -> Len(v.v) > 0
      [] v.t = "dict" -> DOMAIN v.v # {}
      [] OTHER -> TRUE

\* v or d
Or(v, d) == IF Truthy(v) THEN v ELSE d

\* d.get(k, default) of a dict d
Get(d, k, default) == IF k \in DOMAIN d.v THEN d.v[k] ELSE default

\* d.setdefault(k, default) of a dict d: the dict afterwards
SetDefault(d, k, default) == IF k \in DOMAIN d.v THEN d ELSE D(d.v @@ (k :> default))

\* d[k] = x of a dict d: the dict afterwards
SetItem(d, k, x) == D((k :> x) @@ d.v)

\* a + b: numbers add, strings and lists concatenate, anything else is a TypeError
Add(a, b) ==
    CASE a.t = "int" /\ b.t = "int" -> I(a.v + b.v)
      [] a.t = "str" /\ b.t = "str" -> S(a.v \o b.v)
      [] a.t = "list" /\ b.t = "list" -> L(a.v \o b.v)
      [] OTHER -> Raise

-----------------------------------------------------------------------------
(* Soil normalization, views.py 92-105 *)

Layers == {"0-5cm", "5-15cm", "15-30cm"}

\* one property of the loop body: a dict is kept, anything else is broadcast
SoilLayersTwo(value) ==
    IF value.t = "dict" THEN value
    ELSE D([l \in {"0-5cm", "5-15cm"} |-> value])

SoilLayers(value) ==
    IF value.t = "dict" THEN value
    ELSE D([l \in Layers |-> value])

\* get_soil_data(...) or {} followed by the loop over raw_soil.items();
\* a truthy non-dict has no items(): AttributeError
SoilNormalize(returned) ==
    LET raw_soil == Or(returned, EmptyDict) IN
    IF raw_soil.t # "dict" THEN Raise
    ELSE D([prop \in DOMAIN raw_soil.v |-> SoilLayers(raw_soil.v[prop])])

-----------------------------------------------------------------------------
(* Monthly breakdown normalization, views.py 169-185 *)

MonthKeys == {"month", "energy", "revenue", "pv_energy_kwh", "wind_energy_kwh"}

\* the default of "energy": both .get calls and the sum are evaluated
\* before the outer .get, whether or not "energy" is present
PvPlusWind(item) ==
    Add(Get(item, "pv_energy_kwh", I(0)), Get(item, "wind_energy_kwh", I(0)))

NormalizeItemSparse(item) ==
    IF item.t # "dict" THEN Raise
    ELSE IF PvPlusWind(item) = Raise THEN Raise
    ELSE D([energy |-> Get(item, "energy", PvPlusWind(item)),
            revenue |-> Get(item, "revenue", Get(item, "revenue_inr", I(0)))]
           @@ item.v)

NormalizeItemAccumulate(item) ==
    IF item.t # "dict" THEN Raise
    ELSE IF PvPlusWind(item) = Raise THEN Raise
    ELSE IF Add(Get(item, "energy", I(0)), PvPlusWind(item)) = Raise THEN Raise
    ELSE D([month |-> Get(item, "month", S("")),
            energy |-> Add(Get(item, "energy", I(0)), PvPlusWind(item)),
            revenue |-> Get(item, "revenue", Get(item, "revenue_inr", I(0))),
            pv_energy_kwh |-> Get(item, "pv_energy_kwh", I(0)),
            wind_energy_kwh |-> Get(item, "wind_energy_kwh", I(0))])

NormalizeItemInrFirst(item) ==
    IF item.t # "dict" THEN Raise
    ELSE IF PvPlusWind(item) = Raise THEN Raise
    ELSE D([month |-> Get(item, "month", S("")),
            energy |-> Get(item, "energy", PvPlusWind(item)),
            revenue |-> Get(item, "revenue_inr", Get(item, "revenue", I(0))),
            pv_energy_kwh |-> Get(item, "pv_energy_kwh", I(0)),
            wind_energy_kwh |-> Get(item, "wind_energy_kwh", I(0))])

\* one appended bucket; item.get on a non-dict is an AttributeError
NormalizeItem(item) ==
    IF item.t # "dict" THEN Raise
    ELSE IF PvPlusWind(item) = Raise THEN Raise
    ELSE D([month |-> Get(item, "month", S("")),
            energy |-> Get(item, "energy", PvPlusWind(item)),
            revenue |-> Get(item, "revenue", Get(item, "revenue_inr", I(0))),
            pv_energy_kwh |-> Get(item, "pv_energy_kwh", I(0)),
            wind_energy_kwh |-> Get(item, "wind_energy_kwh", I(0))])

\* the items the for loop visits: the elements of a list, the keys of a dict,
\* the characters of a str; None and numbers are not iterable (TypeError)
IterItems(mb) ==
    CASE mb.t = "list" -> mb.v
      [] mb.t = "dict" /\ DOMAIN mb.v = {} -> <<>>
      [] mb.t = "dict" -> <<S("key")>>
      [] mb.t = "str" /\ mb.v = "" -> <<>>
      [] mb.t = "str" -> <<S("char")>>
      [] OTHER -> <<Raise>>

\* the whole loop: the list of normalized buckets, or Raise when an item fails
NormalizeMonthly(mb) ==
    LET items == IterItems(mb)
        out == [i \in 1..Len(items) |-> NormalizeItem(items[i])]
    IN IF \E i \in 1..Len(items) : items[i] = Raise \/ out[i] = Raise
       THEN Raise
       ELSE L(out)

-----------------------------------------------------------------------------
(* The two normalizations on their own: every input of a bounded universe *)

MaxMonths == 2

Absent == [t |-> "absent"]

\* the dict holding the keys of rec that are not Absent
Present(rec) == D([k \in {k \in DOMAIN rec : rec[k] # Absent} |-> rec[k]])

SoilProps == {"phh2o", "clay", "nitrogen"}

\* what a provider may hold for one property: nothing, a scalar, a per-layer
\* mapping (complete, partial or empty)
SoilValues ==
    {Absent, I(6), I(0), NoneV,
     D([l \in Layers |-> I(3)]),
     D([l \in {"0-5cm"} |-> I(4)]),
     EmptyDict}

RawSoils ==
    {Present(f) : f \in [SoilProps -> SoilValues]}
    \cup {NoneV, Raise, L(<<I(1)>>), I(5)}

\* the buckets an estimator may supply: any subset of the keys, a null
\* component, or an item that is no dict at all
MonthItems ==
    {Present([month |-> m, energy |-> e, revenue |-> r, revenue_inr |-> ri,
              pv_energy_kwh |-> p, wind_energy_kwh |-> w]) :
        m \in {Absent, S("Jan")}, e \in {Absent, I(7)}, r \in {Absent, I(4)},
        ri \in {Absent, I(3)}, p \in {Absent, I(2)}, w \in {Absent, I(1)}}
    \cup {D([pv_energy_kwh |-> NoneV, energy |-> I(7)]), NoneV}

MonthLists == UNION {[1..n -> MonthItems] : n \in 0..MaxMonths}

NoProbe == [stage |-> "unused"]

SoilProbeInit ==
    soil_probe \in {[stage |-> "input", returned |-> r, soil_data |-> NoneV] :
                       r \in RawSoils \ {Raise}}

\* lines 92-105 applied to the provider's return value
SoilProbeStep ==
    /\ soil_probe.stage = "input"
    /\ soil_probe' = [soil_probe EXCEPT !.stage = "normalized",
                         !.soil_data = SoilNormalize(soil_probe.returned)]
    /\ UNCHANGED <<analyses, proposals, runs, response, months_probe, bonds, posts>>

MonthsProbeInit ==
    months_probe \in {[stage |-> "input", input |-> L(seq), once |-> NoneV,
                       twice |-> NoneV] : seq \in MonthLists}

\* lines 169-185 applied to the estimator's monthly_breakdown
MonthsProbeOnce ==
    /\ months_probe.stage = "input"
    /\ months_probe' = [months_probe EXCEPT !.stage = "once",
                           !.once = NormalizeMonthly(months_probe.input)]
    /\ UNCHANGED <<analyses, proposals, runs, response, soil_probe, bonds, posts>>

\* lines 169-185 applied to their own output
MonthsProbeTwice ==
    /\ months_probe.stage = "once"
    /\ months_probe.once # Raise
    /\ months_probe' = [months_probe EXCEPT !.stage = "twice",
                           !.twice = NormalizeMonthly(months_probe.once)]
    /\ UNCHANGED <<analyses, proposals, runs, response, soil_probe, bonds, posts>>

IdleApp ==
    /\ analyses = <<>>
    /\ proposals = <<>>
    /\ runs = <<>>
    /\ response = NoneV
    /\ bonds = <<>>
    /\ posts = <<>>

SoilInit == IdleApp /\ SoilProbeInit /\ months_probe = NoProbe

SoilNext == SoilProbeStep

SpecSoil == SoilInit /\ [][SoilNext]_vars

MonthsInit == IdleApp /\ MonthsProbeInit /\ soil_probe = NoProbe

MonthsNext == MonthsProbeOnce \/ MonthsProbeTwice

SpecMonths == MonthsInit /\ [][MonthsNext]_vars

-----------------------------------------------------------------------------
(* The LandAnalysis table and the frame of ProcessAnalysisView.get *)

MaxAnalyses == 2

MaxProposals == 1

AnalysisIds == 1..MaxAnalyses

RunIds == {1, 2}

NoRow == [t |-> "norow"]

Unset == [t |-> "unbound"]

NotCalled == [t |-> "notcalled"]

\* a row as AnalysisInputView.post saves it: the two forms were valid
RowFromForm(area_m2, area_ha) ==
    [land |-> NoneV, area_m2 |-> area_m2, area_ha |-> area_ha,
     soil_data |-> NoneV, crop_recommendations |-> NoneV,
     energy_results |-> NoneV, validated |-> TRUE]

\* a row as SubmitProposalView.post creates it: get_or_create with the land's
\* coordinates and today's dates, no form of the analysis involved
RowFromLand(land) ==
    [land |-> S(land), area_m2 |-> NoneV, area_ha |-> NoneV,
     soil_data |-> NoneV, crop_recommendations |-> NoneV,
     energy_results |-> NoneV, validated |-> FALSE]

\* the areas a valid form may carry: either unit, both (agreeing or not),
\* none, zero
FormAreas ==
    {<<I(5000), NoneV>>, <<NoneV, I(2)>>, <<I(5000), I(2)>>, <<NoneV, NoneV>>,
     <<I(0), I(2)>>, <<I(0), I(0)>>}

IdleFrame ==
    [pc |-> "idle", id |-> 0, exc |-> "", analysis |-> NoneV,
     crop_recommendations |-> Unset, area_m2 |-> Unset, area_ha |-> Unset,
     energy_results |-> Unset, agri_revenue |-> Unset, mixed_analysis |-> Unset,
     soil_ret |-> NotCalled, crop_ret |-> NotCalled, energy_ret |-> NotCalled,
     agri_ret |-> NotCalled, mixed_ret |-> NotCalled,
     energy_args |-> NotCalled,
     agri_args |-> NotCalled, mixed_args |-> NotCalled, saves |-> 0]

PostIds == {1, 2}

\* a ProposalDetailView.post request that is not being handled
IdlePost == [pc |-> "idle", user |-> "", pid |-> 0, action |-> "", proposal |-> NoneV]

Finished(r) == runs[r].pc \in {"redirect_results", "redirect_index"}

\* requests are handled one at a time: no other handler is executing
ServerFree(r) ==
    /\ response = NoneV
    /\ \A q \in RunIds \ {r} : runs[q].pc = "idle" \/ Finished(q)

-----------------------------------------------------------------------------
(* What the collaborators may return: utils.soil_analysis and               *)
(* utils.energy_estimation are called, not defined, in the views.           *)

SoilReturns ==
    {Raise, NoneV,
     D([phh2o |-> I(6), clay |-> D([l \in {"0-5cm", "5-15cm"} |-> I(3)])])}

CropReturns == {Raise, NoneV, L(<<S("wheat")>>)}

EnergyReturns ==
    {Raise, NoneV,
     D([total_energy_kwh |-> I(5), total_revenue |-> I(9),
        monthly_breakdown |->
            L(<<D([month |-> S("Jan"), pv_energy_kwh |-> I(2), revenue_inr |-> I(3)])>>)]),
     D([total_energy_kwh |-> I(5), monthly_breakdown |-> NoneV])}

AgriReturns ==
    {Raise, NoneV,
     D([details |-> L(<<S("wheat")>>), total_revenue |-> I(6)]),
     D([total_revenue |-> I(6)])}

MixedReturns ==
    {Raise, NoneV,
     D([scenarios |-> L(<<S("mixed")>>), best_scenario |-> S("mixed")]),
     D([scenarios |-> L(<<S("mixed")>>)])}

FullEnv ==
    [soil |-> SoilReturns, crops |-> CropReturns, energy |-> EnergyReturns,
     agri |-> AgriReturns, mixed |-> MixedReturns]

-----------------------------------------------------------------------------
(* ProcessAnalysisView.get, views.py 84-217 *)

\* analysis.area_ha * 10000
Times10000(a) == IF a.t = "int" THEN I(a.v * 10000) ELSE Raise

\* lines 121-124
AreaM2(analysis) ==
    Or(analysis.area_m2,
       IF Truthy(analysis.area_ha) THEN Times10000(analysis.area_ha) ELSE I(0))

AreaHaPerThousand(area_m2) ==
    IF Truthy(area_m2)
    THEN (IF area_m2.t = "int" THEN Q(area_m2.v, 1000) ELSE Raise)
    ELSE I(0)

\* line 125
AreaHa(area_m2) ==
    IF Truthy(area_m2)
    THEN (IF area_m2.t = "int" THEN Q(area_m2.v, 10000) ELSE Raise)
    ELSE I(0)

\* line 132: the area estimate_energy_potential is called with
EnergyArgs(area_m2) == [area_m2 |-> area_m2]

\* the value a guarded call leaves: try: x = f(...) or default; except: x = default
Guarded(ret, default) == IF ret = Raise THEN default ELSE Or(ret, default)

EnergyDefaultsNoPlots(er) ==
    SetDefault(SetDefault(SetDefault(SetDefault(SetDefault(er,
        "total_energy_kwh", I(0)),
        "pv_energy_kwh", I(0)),
        "wind_energy_kwh", I(0)),
        "total_revenue", I(0)),
        "monthly_breakdown", EmptyList)

\* lines 160-166
EnergyDefaults(er) ==
    SetDefault(SetDefault(SetDefault(SetDefault(SetDefault(SetDefault(SetDefault(er,
        "total_energy_kwh", I(0)),
        "pv_energy_kwh", I(0)),
        "wind_energy_kwh", I(0)),
        "total_revenue", I(0)),
        "monthly_breakdown", EmptyList),
        "hourly_plot", S("")),
        "daily_plot", S(""))

\* lines 191-195
DefaultAgri == D([details |-> EmptyList])

\* lines 200-202
DefaultMixed == D([scenarios |-> EmptyList, best_scenario |-> EmptyDict])

MixedArgsRaw(f) ==
    [energy_results |-> Guarded(f.energy_ret, EmptyDict),
     agri_revenue |-> f.agri_revenue, area_ha |-> f.area_ha]

\* lines 198-200: what calculate_mixed_potential is called with
MixedArgs(f) ==
    [energy_results |-> f.energy_results, agri_revenue |-> f.agri_revenue,
     area_ha |-> f.area_ha]

AgriArgsAfterEnergy(f) ==
    [crop_recommendations |-> f.crop_recommendations,
     area_ha |-> IF f.energy_ret = Raise THEN I(0) ELSE f.area_ha]

\* line 191: what estimate_agri_revenue is called with
AgriArgs(f) ==
    [crop_recommendations |-> f.crop_recommendations, area_ha |-> f.area_ha]

\* lines 85-87: the lookup; DoesNotExist is answered by a redirect to index
Start(r, id) ==
    /\ ServerFree(r)
    /\ runs[r].pc = "idle"
    /\ runs' = [runs EXCEPT ![r] =
          IF analyses[id] = NoRow
          THEN [IdleFrame EXCEPT !.pc = "redirect_index", !.id = id,
                                 !.exc = "DoesNotExist"]
          ELSE [IdleFrame EXCEPT !.pc = "soil", !.id = id,
                                 !.analysis = analyses[id]]]
    /\ UNCHANGED <<analyses, proposals, response, soil_probe, months_probe, bonds, posts>>

\* lines 92-105: no handler of its own, a failure reaches the outer except
SoilStep(r, env) ==
    /\ runs[r].pc = "soil"
    /\ \E ret \in env.soil :
          runs' = [runs EXCEPT ![r] =
             IF ret = Raise \/ SoilNormalize(ret) = Raise
             THEN [@ EXCEPT !.pc = "redirect_index", !.exc = "Exception",
                            !.soil_ret = ret]
             ELSE [@ EXCEPT !.pc = "crops", !.soil_ret = ret,
                            !.analysis.soil_data = SoilNormalize(ret)]]
    /\ UNCHANGED <<analyses, proposals, response, soil_probe, months_probe, bonds, posts>>

CropStepSaving(r, env) ==
    /\ runs[r].pc = "crops"
    /\ \E ret \in env.crops :
          /\ runs' = [runs EXCEPT ![r] =
                [@ EXCEPT !.pc = "energy", !.crop_ret = ret,
                          !.crop_recommendations = Guarded(ret, EmptyList),
                          !.analysis.crop_recommendations = Guarded(ret, EmptyList)]]
          /\ analyses' = [analyses EXCEPT ![runs[r].id] = runs'[r].analysis]
    /\ UNCHANGED <<proposals, response, soil_probe, months_probe, bonds, posts>>

\* lines 110-115
CropStep(r, env) ==
    /\ runs[r].pc = "crops"
    /\ \E ret \in env.crops :
          runs' = [runs EXCEPT ![r] =
             [@ EXCEPT !.pc = "energy", !.crop_ret = ret,
                       !.crop_recommendations = Guarded(ret, EmptyList),
                       !.analysis.crop_recommendations = Guarded(ret, EmptyList)]]
    /\ UNCHANGED <<analyses, proposals, response, soil_probe, months_probe, bonds, posts>>

\* lines 120-155: the areas are computed inside the try, before the call;
\* an error there leaves both names unbound and the estimator uncalled
EnergyStep(r, env) ==
    /\ runs[r].pc = "energy"
    /\ LET m2 == AreaM2(runs[r].analysis)
           ha == IF m2 = Raise THEN Raise ELSE AreaHa(m2)
       IN IF m2 = Raise \/ ha = Raise
          THEN runs' = [runs EXCEPT ![r] =
                  [@ EXCEPT !.pc = "normalize", !.energy_results = EmptyDict,
                            !.area_m2 = IF m2 = Raise THEN Unset ELSE m2]]
          ELSE \E ret \in env.energy :
                  runs' = [runs EXCEPT ![r] =
                     [@ EXCEPT !.pc = "normalize", !.energy_ret = ret,
                               !.energy_args = EnergyArgs(m2),
                               !.area_m2 = m2, !.area_ha = ha,
                               !.energy_results = Guarded(ret, EmptyDict)]]
    /\ UNCHANGED <<analyses, proposals, response, soil_probe, months_probe, bonds, posts>>

\* lines 160-185: setdefault on a non-dict and a failing bucket both reach
\* the outer except
NormalizeStep(r) ==
    /\ runs[r].pc = "normalize"
    /\ LET er == runs[r].energy_results
           filled == EnergyDefaults(er)
           months == NormalizeMonthly(Get(filled, "monthly_breakdown", EmptyList))
       IN runs' = [runs EXCEPT ![r] =
             IF er.t # "dict" \/ months = Raise
             THEN [@ EXCEPT !.pc = "redirect_index", !.exc = "Exception"]
             ELSE [@ EXCEPT !.pc = "agri",
                            !.energy_results =
                                SetItem(filled, "monthly_breakdown", months)]]
    /\ UNCHANGED <<analyses, proposals, response, soil_probe, months_probe, bonds, posts>>

\* lines 190-195: an unbound area_ha is a NameError inside the try
AgriStep(r, env) ==
    /\ runs[r].pc = "agri"
    /\ IF runs[r].area_ha = Unset
       THEN runs' = [runs EXCEPT ![r] =
               [@ EXCEPT !.pc = "mixed", !.agri_revenue = DefaultAgri]]
       ELSE \E ret \in env.agri :
               runs' = [runs EXCEPT ![r] =
                  [@ EXCEPT !.pc = "mixed", !.agri_ret = ret,
                            !.agri_args = AgriArgs(runs[r]),
                            !.agri_revenue = Guarded(ret, DefaultAgri)]]
    /\ UNCHANGED <<analyses, proposals, response, soil_probe, months_probe, bonds, posts>>

\* lines 197-202
MixedStep(r, env) ==
    /\ runs[r].pc = "mixed"
    /\ IF runs[r].area_ha = Unset
       THEN runs' = [runs EXCEPT ![r] =
               [@ EXCEPT !.pc = "save", !.mixed_analysis = DefaultMixed]]
       ELSE \E ret \in env.mixed :
               runs' = [runs EXCEPT ![r] =
                  [@ EXCEPT !.pc = "save", !.mixed_ret = ret,
                            !.mixed_args = MixedArgs(runs[r]),
                            !.mixed_analysis = Guarded(ret, DefaultMixed)]]
    /\ UNCHANGED <<analyses, proposals, response, soil_probe, months_probe, bonds, posts>>

\* lines 204-207: the document that is stored
Document(f) ==
    SetItem(SetItem(f.energy_results, "agri_revenue", f.agri_revenue),
            "mixed_analysis", f.mixed_analysis)

\* lines 204-210
SaveStep(r) ==
    /\ runs[r].pc = "save"
    /\ LET saved == [runs[r].analysis EXCEPT !.energy_results = Document(runs[r])]
       IN /\ runs' = [runs EXCEPT ![r] =
                [@ EXCEPT !.pc = "redirect_results", !.analysis = saved,
                          !.energy_results = Document(runs[r]),
                          !.saves = @ + 1]]
          /\ analyses' = [analyses EXCEPT ![runs[r].id] = saved]
    /\ UNCHANGED <<proposals, response, soil_probe, months_probe, bonds, posts>>

\* the redirect is sent, the frame is gone
Return(r) ==
    /\ Finished(r)
    /\ runs' = [runs EXCEPT ![r] = IdleFrame]
    /\ UNCHANGED <<analyses, proposals, response, soil_probe, months_probe, bonds, posts>>

Pipeline(r, env) ==
    \/ SoilStep(r, env)
    \/ CropStep(r, env)
    \/ EnergyStep(r, env)
    \/ NormalizeStep(r)
    \/ AgriStep(r, env)
    \/ MixedStep(r, env)
    \/ SaveStep(r)

-----------------------------------------------------------------------------
(* ResultsView.get, views.py 220-239 *)

\* lines 225-228
ResultsDefaults(stored) ==
    SetDefault(SetDefault(SetDefault(Or(stored, EmptyDict),
        "agri_revenue", D([details |-> EmptyList])),
        "mixed_analysis", EmptyDict),
        "monthly_breakdown", EmptyList)

ResultsGet(id) ==
    /\ ServerFree(0)
    /\ response = NoneV
    /\ response' =
          IF analyses[id] = NoRow
          THEN [kind |-> "redirect", to |-> "index"]
          ELSE [kind |-> "render", template |-> "results", id |-> id,
                soil_data |-> Or(analyses[id].soil_data, EmptyDict),
                crop_recommendations |->
                    Or(analyses[id].crop_recommendations, EmptyList),
                energy_results |-> ResultsDefaults(analyses[id].energy_results)]
    /\ UNCHANGED <<analyses, proposals, runs, soil_probe, months_probe, bonds, posts>>

\* the answer is sent
Respond ==
    /\ response # NoneV
    /\ response' = NoneV
    /\ UNCHANGED <<analyses, proposals, runs, soil_probe, months_probe, bonds, posts>>

-----------------------------------------------------------------------------
(* One stored analysis, processed and viewed any number of times *)

Init ==
    /\ \E a \in FormAreas \cup {<<Absent, Absent>>} :
          analyses = [id \in AnalysisIds |->
             IF id # 1 THEN NoRow
             ELSE IF a[1] = Absent THEN RowFromLand("L1")
             ELSE RowFromForm(a[1], a[2])]
    /\ proposals = <<>>
    /\ runs = [r \in RunIds |-> IdleFrame]
    /\ response = NoneV
    /\ soil_probe = NoProbe
    /\ months_probe = NoProbe
    /\ bonds = <<>>
    /\ posts = [p \in PostIds |-> IdlePost]

Next ==
    \/ \E id \in AnalysisIds : Start(1, id)
    \/ Pipeline(1, FullEnv)
    \/ Return(1)
    \/ \E id \in AnalysisIds : ResultsGet(id)
    \/ Respond

Spec == Init /\ [][Next]_vars

-----------------------------------------------------------------------------
(* AnalysisInputView.post, views.py 64-81 *)

HasFreeId == \E id \in AnalysisIds : analyses[id] = NoRow

\* the id the next saved row gets
NextId ==
    CHOOSE id \in AnalysisIds :
        analyses[id] = NoRow /\ \A j \in AnalysisIds : j < id => analyses[j] # NoRow

\* valid: form.is_valid() and advanced_form.is_valid()
AnalysisInputPost ==
    /\ ServerFree(0)
    /\ \E valid \in BOOLEAN, a \in FormAreas :
          IF valid
          THEN /\ HasFreeId
               /\ analyses' = [analyses EXCEPT ![NextId] = RowFromForm(a[1], a[2])]
               /\ response' = [kind |-> "redirect", to |-> "process_analysis",
                               id |-> NextId]
          ELSE /\ response' = [kind |-> "render", template |-> "input_form"]
               /\ UNCHANGED analyses
    /\ UNCHANGED <<proposals, runs, soil_probe, months_probe, bonds, posts>>

-----------------------------------------------------------------------------
(* SubmitProposalView.post, views_business.py 77-112 *)

Users == {"alice", "bob", "carol"}

Role(u) == IF u = "bob" THEN "builder" ELSE "landowner"

Lands == {"L1", "L2"}

Owner(l) == IF l = "L1" THEN "alice" ELSE "carol"

HasRowOfNever(l) == FALSE

\* LandAnalysis.objects.get_or_create(land=land, ...): the row of the land
HasRowOf(l) == \E id \in AnalysisIds : analyses[id] # NoRow /\ analyses[id].land = S(l)

RowOf(l) == CHOOSE id \in AnalysisIds : analyses[id] # NoRow /\ analyses[id].land = S(l)

\* lines 103-109: the created row; the columns the view does not set are None here
NewProposal(user, builder_id, id) ==
    [landowner |-> user, builder |-> builder_id, land_analysis |-> id,
     status |-> "pending_builder", builder_response_message |-> NoneV,
     investment_choice |-> NoneV]

\* one request: valid is form.is_valid(), cap the size the Proposal table may reach
SubmitProposal(user, builder_id, land_id, valid, cap) ==
    /\ ServerFree(0)
    /\    IF Role(user) # "landowner"
          THEN /\ response' = [kind |-> "redirect", to |-> "dashboard"]
               /\ UNCHANGED <<analyses, proposals>>
          ELSE IF builder_id \notin Users
          THEN /\ response' = [kind |-> "404", to |-> "User"]
               /\ UNCHANGED <<analyses, proposals>>
          ELSE IF land_id = "" \/ ~valid
          THEN /\ response' = [kind |-> "redirect", to |-> "submit_proposal"]
               /\ UNCHANGED <<analyses, proposals>>
          ELSE IF land_id \notin Lands \/ Owner(land_id) # user
          THEN /\ response' = [kind |-> "404", to |-> "Land"]
               /\ UNCHANGED <<analyses, proposals>>
          ELSE /\ Len(proposals) < cap
               /\ HasRowOf(land_id) \/ HasFreeId
               /\ LET id == IF HasRowOf(land_id) THEN RowOf(land_id) ELSE NextId
                  IN /\ analyses' = IF HasRowOf(land_id) THEN analyses
                                    ELSE [analyses EXCEPT ![id] = RowFromLand(land_id)]
                     /\ proposals' = Append(proposals, NewProposal(user, builder_id, id))
               /\ response' = [kind |-> "redirect", to |-> "dashboard"]
    /\ UNCHANGED <<runs, soil_probe, months_probe, bonds, posts>>

BuilderIds == Users \cup {"nobody"}

LandIds == Lands \cup {"", "L9"}

SubmitProposalPost ==
    \E user \in Users, builder_id \in BuilderIds, land_id \in LandIds, valid \in BOOLEAN :
        SubmitProposal(user, builder_id, land_id, valid, MaxProposals)

-----------------------------------------------------------------------------
(* ProposalDetailView, views_business.py 148-204. A request loads its own   *)
(* copy of the proposal, changes the copy and saves the whole row; the bond *)
(* is looked up and inserted in the database.                               *)

Actions == {"accept", "reject", "choose_self", "choose_builder", "other"}

BranchAnyBuilder(user, proposal) == "builder"

\* lines 165 and 175: the builder branch is tested first
Branch(user, proposal) ==
    IF user = proposal.builder THEN "builder"
    ELSE IF user = proposal.landowner THEN "landowner"
    ELSE "none"

BuilderActionReopen(proposal, action) ==
    IF action = "accept"
    THEN [proposal EXCEPT !.status = "accepted",
                          !.builder_response_message = S("Proposal accepted.")]
    ELSE IF action = "reject"
    THEN [proposal EXCEPT !.status = "rejected",
                          !.builder_response_message = S("Proposal rejected.")]
    ELSE [proposal EXCEPT !.status = "pending_builder"]

\* lines 166-171: the copy after the builder's action
BuilderAction(proposal, action) ==
    IF action = "accept"
    THEN [proposal EXCEPT !.status = "accepted",
                          !.builder_response_message = S("Proposal accepted.")]
    ELSE IF action = "reject"
    THEN [proposal EXCEPT !.status = "rejected",
                          !.builder_response_message = S("Proposal rejected.")]
    ELSE proposal

\* lines 176-177 and 181-182
Choice(action) == IF action = "choose_self" THEN "self_invest" ELSE "builder_invest"

HasBondNever(table, pid) == FALSE

\* line 189: hasattr(proposal, 'bond'), the reverse one-to-one lookup
HasBond(table, pid) == \E i \in 1..Len(table) : table[i].proposal = pid

\* lines 192-201: the parties and the investment model of the copy
BondContent(proposal) ==
    [landowner |-> proposal.landowner, builder |-> proposal.builder,
     investment |-> proposal.investment_choice]

BondInsertAppend(table, row) == [ok |-> TRUE, rows |-> Append(table, row)]

\* line 203: Bond.objects.create. proposal.bond is a reverse one-to-one
\* accessor, so the column is unique and a second row for the same proposal
\* is refused with IntegrityError.
BondInsert(table, row) ==
    IF \E i \in 1..Len(table) : table[i].proposal = row.proposal
    THEN [ok |-> FALSE, rows |-> table]
    ELSE [ok |-> TRUE, rows |-> Append(table, row)]

PostsIdle == \A p \in PostIds : posts[p].pc = "idle"

\* no other request is being handled or answered
Exclusive(p) ==
    /\ response = NoneV
    /\ \A q \in RunIds : runs[q].pc = "idle"
    /\ \A o \in PostIds \ {p} : posts[o].pc = "idle"

\* lines 161-163, 165, 175-176, 180: the proposal is loaded and the branch taken
PostStart(p, user, pid, action) ==
    /\ posts[p].pc = "idle"
    /\ IF pid \notin 1..Len(proposals)
       THEN posts' = [posts EXCEPT ![p] =
               [pc |-> "404", user |-> user, pid |-> pid, action |-> action,
                proposal |-> NoneV]]
       ELSE LET proposal == proposals[pid]
                branch == Branch(user, proposal)
            IN posts' = [posts EXCEPT ![p] =
                  [pc |-> IF branch = "builder" THEN "builder_save"
                          ELSE IF branch = "landowner"
                                  /\ action \in {"choose_self", "choose_builder"}
                          THEN "choice_save"
                          ELSE "redirect",
                   user |-> user, pid |-> pid, action |-> action,
                   proposal |-> proposal]]
    /\ UNCHANGED <<analyses, proposals, runs, response, soil_probe, months_probe, bonds>>

\* lines 166-172
BuilderSave(p) ==
    /\ posts[p].pc = "builder_save"
    /\ LET copy == BuilderAction(posts[p].proposal, posts[p].action)
       IN /\ proposals' = [proposals EXCEPT ![posts[p].pid] = copy]
          /\ posts' = [posts EXCEPT ![p] = [@ EXCEPT !.pc = "redirect", !.proposal = copy]]
    /\ UNCHANGED <<analyses, runs, response, soil_probe, months_probe, bonds>>

\* lines 177-178 and 182-183
ChoiceSave(p) ==
    /\ posts[p].pc = "choice_save"
    /\ LET copy == [posts[p].proposal EXCEPT
                       !.investment_choice = S(Choice(posts[p].action))]
       IN /\ proposals' = [proposals EXCEPT ![posts[p].pid] = copy]
          /\ posts' = [posts EXCEPT ![p] = [@ EXCEPT !.pc = "bond_check", !.proposal = copy]]
    /\ UNCHANGED <<analyses, runs, response, soil_probe, months_probe, bonds>>

\* lines 189-190
BondCheck(p) ==
    /\ posts[p].pc = "bond_check"
    /\ posts' = [posts EXCEPT ![p] =
          [@ EXCEPT !.pc = IF HasBond(bonds, posts[p].pid) THEN "redirect"
                           ELSE "bond_create"]]
    /\ UNCHANGED <<analyses, proposals, runs, response, soil_probe, months_probe, bonds>>

\* lines 192-204
BondCreate(p) ==
    /\ posts[p].pc = "bond_create"
    /\ LET done == BondInsert(bonds, [proposal |-> posts[p].pid,
                                      content |-> BondContent(posts[p].proposal)])
       IN /\ bonds' = done.rows
          /\ posts' = [posts EXCEPT ![p] =
                [@ EXCEPT !.pc = IF done.ok THEN "redirect" ELSE "error"]]
    /\ UNCHANGED <<analyses, proposals, runs, response, soil_probe, months_probe>>

\* line 186, or the error page: the request is over
PostReturn(p) ==
    /\ posts[p].pc \in {"redirect", "404", "error"}
    /\ posts' = [posts EXCEPT ![p] = IdlePost]
    /\ UNCHANGED <<analyses, proposals, runs, response, soil_probe, months_probe, bonds>>

PostStep(p) ==
    \/ BuilderSave(p)
    \/ ChoiceSave(p)
    \/ BondCheck(p)
    \/ BondCreate(p)
    \/ PostReturn(p)

\* lines 149-158
ProposalDetailGet(user, pid) ==
    /\ response = NoneV
    /\ response' =
          IF pid \notin 1..Len(proposals) THEN [kind |-> "404", to |-> "Proposal"]
          ELSE IF user \notin {proposals[pid].builder, proposals[pid].landowner}
          THEN [kind |-> "redirect", to |-> "dashboard"]
          ELSE [kind |-> "render", template |-> "proposal_detail", id |-> pid]
    /\ UNCHANGED <<analyses, proposals, runs, soil_probe, months_probe, bonds, posts>>

-----------------------------------------------------------------------------
(* The application: rows come to exist through the two posts *)

\* the collaborators answer or raise
AppEnv ==
    [soil |-> {Raise, D([phh2o |-> I(6)])},
     crops |-> {L(<<S("wheat")>>)},
     energy |-> {Raise, D([total_energy_kwh |-> I(5)])},
     agri |-> {D([details |-> L(<<S("wheat")>>)])},
     mixed |-> {DefaultMixed}]

AppInit ==
    /\ analyses = [id \in AnalysisIds |-> NoRow]
    /\ proposals = <<>>
    /\ runs = [r \in RunIds |-> IdleFrame]
    /\ response = NoneV
    /\ soil_probe = NoProbe
    /\ months_probe = NoProbe
    /\ bonds = <<>>
    /\ posts = [p \in PostIds |-> IdlePost]

AppNext ==
    \/ AnalysisInputPost
    \/ SubmitProposalPost
    \/ \E id \in AnalysisIds : Start(1, id)
    \/ Pipeline(1, AppEnv)
    \/ Return(1)
    \/ \E id \in AnalysisIds : ResultsGet(id)
    \/ Respond

SpecApp == AppInit /\ [][AppNext]_vars

-----------------------------------------------------------------------------
(* The proposal workflow: proposals are submitted, answered and bonded *)

ProposalIds == 1..(MaxProposals + 1)

\* the proposal workflow, one request at a time
ProposalNext ==
    \/ PostsIdle /\ SubmitProposalPost
    \/ Respond
    \/ \E user \in Users, pid \in ProposalIds :
          PostsIdle /\ ProposalDetailGet(user, pid)
    \/ \E user \in Users, pid \in ProposalIds, action \in Actions :
          Exclusive(1) /\ PostStart(1, user, pid, action)
    \/ PostStep(1)

SpecProposal == AppInit /\ [][ProposalNext]_vars

\* one submitted proposal, as SubmitProposalPost leaves it
RaceInit ==
    /\ \E land \in Lands, builder_id \in Users :
          /\ analyses = [id \in AnalysisIds |->
                           IF id = 1 THEN RowFromLand(land) ELSE NoRow]
          /\ proposals = <<NewProposal(Owner(land), builder_id, 1)>>
    /\ runs = [r \in RunIds |-> IdleFrame]
    /\ response = NoneV
    /\ soil_probe = NoProbe
    /\ months_probe = NoProbe
    /\ bonds = <<>>
    /\ posts = [p \in PostIds |-> IdlePost]

\* two requests on that proposal handled at the same time
RaceNext ==
    \/ \E p \in PostIds, user \in Users, action \in Actions :
          PostStart(p, user, 1, action)
    \/ \E p \in PostIds : PostStep(p)

SpecRace == RaceInit /\ [][RaceNext]_vars

-----------------------------------------------------------------------------
(* Proposals are submitted again and again, next to an analysis from the form *)

MaxSubmits == 2

\* no analysis yet, or one that the input form has saved
SubmitInit ==
    /\ \E first \in {NoRow, RowFromForm(I(5000), NoneV)} :
          analyses = [id \in AnalysisIds |-> IF id = 1 THEN first ELSE NoRow]
    /\ proposals = <<>>
    /\ runs = [r \in RunIds |-> IdleFrame]
    /\ response = NoneV
    /\ soil_probe = NoProbe
    /\ months_probe = NoProbe
    /\ bonds = <<>>
    /\ posts = [p \in PostIds |-> IdlePost]

SubmitNext ==
    \/ \E user \in Users, builder_id \in BuilderIds, land_id \in LandIds,
          valid \in BOOLEAN :
          SubmitProposal(user, builder_id, land_id, valid, MaxSubmits)
    \/ Respond

SpecSubmit == SubmitInit /\ [][SubmitNext]_vars

-----------------------------------------------------------------------------
(* Two runs on one analysis: the second starts when the first has finished, *)
(* and the collaborators are functions of their arguments: called with what *)
(* the first run called them with, they answer what they answered then.     *)
(* The energy estimator alone is free to differ between the two runs.       *)

Again(first, all) == IF first = NotCalled THEN all ELSE {first}

SecondEnv ==
    [soil |-> Again(runs[1].soil_ret, SoilReturns),
     crops |-> Again(runs[1].crop_ret, CropReturns),
     energy |-> EnergyReturns,
     agri |-> IF AgriArgs(runs[2]) = runs[1].agri_args
              THEN {runs[1].agri_ret} ELSE AgriReturns,
     mixed |-> MixedReturns]

PairNext ==
    \/ Start(1, 1)
    \/ Pipeline(1, FullEnv)
    \/ Finished(1) /\ Start(2, 1)
    \/ Pipeline(2, SecondEnv)

SpecPair == Init /\ [][PairNext]_vars

-----------------------------------------------------------------------------
(* The scenario optimizer, spec.md section 4.4: calculate_mixed_potential    *)
(* as the pipeline calls it at views.py 198-200. A mix fraction f is counted *)
(* in quarters q, f = q/4, and a revenue is the exact fraction n/4.          *)

Quarters == 0..4

\* f = 0.5
Half == 2

\* a field of a result record; a record without the field has nothing to read
ReadField(d, k) ==
    IF d.t = "dict" /\ k \in DOMAIN d.v /\ d.v[k].t = "int" THEN d.v[k] ELSE Raise

ScenarioRevenueSwapped(q, energy, agri) == q * agri + (4 - q) * energy

\* 4 * revenue(f) = 4 * (f * energy total_revenue + (1 - f) * agri aggregate revenue)
ScenarioRevenue(q, energy, agri) == q * energy + (4 - q) * agri

Scenario(q, energy, agri) ==
    D([energy_fraction |-> Q(q, 4), revenue |-> Q(ScenarioRevenue(q, energy, agri), 4)])

Distance(q) == IF q < Half THEN Half - q ELSE q - Half

\* argmax of the revenue; among equal revenues the scenario closest to f = 0.5
BestQuarter(energy, agri) ==
    CHOOSE q \in Quarters :
        \A p \in Quarters \ {q} :
            \/ ScenarioRevenue(q, energy, agri) > ScenarioRevenue(p, energy, agri)
            \/ /\ ScenarioRevenue(q, energy, agri) = ScenarioRevenue(p, energy, agri)
               /\ Distance(q) < Distance(p)

CalculateMixedPotential(args) ==
    LET energy == ReadField(args.energy_results, "total_revenue")
        agri == ReadField(args.agri_revenue, "aggregate_revenue")
    IN IF energy = Raise \/ agri = Raise THEN Raise
       ELSE D([scenarios |-> L([i \in 1..5 |-> Scenario(i - 1, energy.v, agri.v)]),
               best_scenario |-> Scenario(BestQuarter(energy.v, agri.v), energy.v, agri.v)])

\* the estimators fail or report a revenue; the optimizer computes
MixedEnv ==
    [soil |-> {D([phh2o |-> I(6)])},
     crops |-> {Raise, L(<<S("wheat")>>)},
     energy |-> {Raise, D([total_energy_kwh |-> I(5), total_revenue |-> I(1000)]),
                 D([total_revenue |-> I(0)])},
     agri |-> {Raise,
               D([details |-> L(<<S("wheat")>>), aggregate_revenue |-> I(600)]),
               D([details |-> L(<<S("wheat")>>), aggregate_revenue |-> I(1000)]),
               D([details |-> EmptyList, aggregate_revenue |-> I(0)])},
     mixed |-> {CalculateMixedPotential(MixedArgs(runs[1]))}]

MixedNext ==
    \/ \E id \in AnalysisIds : Start(1, id)
    \/ Pipeline(1, MixedEnv)
    \/ Return(1)

SpecMixed == Init /\ [][MixedNext]_vars

-----------------------------------------------------------------------------
(* Properties *)

Completed(r) == runs[r].pc = "redirect_results"

EnergyFailed(f) ==
    f.energy_ret # NotCalled /\ (f.energy_ret = Raise \/ ~Truthy(f.energy_ret))

Has(d, k) == d.t = "dict" /\ k \in DOMAIN d.v

\* C1: once the analysis record exists the run never aborts: whatever stages
\* fail, it is never answered by the redirect to index, only a missing record is.
C1_NeverAborts ==
    \A r \in RunIds :
        runs[r].pc = "redirect_index" => runs[r].exc = "DoesNotExist"

\* C2: when the energy estimator raises or returns nothing the run is not
\* aborted, and once it has completed the agri estimator and the optimizer
\* were called, the row was saved once, and the stored energy_results has
\* zero totals, an empty monthly_breakdown and empty plots.
C2_EnergyFailureZeroFilled ==
    \A r \in RunIds :
        LET f == runs[r]
            doc == analyses[f.id].energy_results
        IN EnergyFailed(f) =>
              /\ f.pc \in {"normalize", "agri", "mixed", "save", "redirect_results"}
              /\ Completed(r) =>
                    /\ f.agri_ret # NotCalled
                    /\ f.mixed_ret # NotCalled
                    /\ f.saves = 1
                    /\ doc = f.analysis.energy_results
                    /\ Get(doc, "total_energy_kwh", Absent) = I(0)
                    /\ Get(doc, "pv_energy_kwh", Absent) = I(0)
                    /\ Get(doc, "wind_energy_kwh", Absent) = I(0)
                    /\ Get(doc, "total_revenue", Absent) = I(0)
                    /\ Get(doc, "monthly_breakdown", Absent) = EmptyList
                    /\ Get(doc, "hourly_plot", Absent) = S("")
                    /\ Get(doc, "daily_plot", Absent) = S("")

C2_Witness ==
    /\ Completed(1)
    /\ runs[1].energy_ret = Raise
    /\ runs[1].agri_ret = D([details |-> L(<<S("wheat")>>), total_revenue |-> I(6)])
    /\ analyses[1].energy_results # NoneV

\* C3: after every completed run the stored energy_results holds the seven
\* top-level keys, agri_revenue.details, mixed_analysis.scenarios and
\* mixed_analysis.best_scenario.
C3_DocumentShape ==
    \A r \in RunIds :
        Completed(r) =>
            LET doc == analyses[runs[r].id].energy_results IN
            /\ \A k \in {"total_energy_kwh", "pv_energy_kwh", "wind_energy_kwh",
                         "total_revenue", "monthly_breakdown", "hourly_plot",
                         "daily_plot", "agri_revenue", "mixed_analysis"} : Has(doc, k)
            /\ Has(doc.v["agri_revenue"], "details")
            /\ Has(doc.v["mixed_analysis"], "scenarios")
            /\ Has(doc.v["mixed_analysis"], "best_scenario")

\* C4: the energy_results that ResultsView.get hands to the results page holds
\* monthly_breakdown, agri_revenue.details, mixed_analysis.scenarios and
\* mixed_analysis.best_scenario, for every stored analysis.
C4_ResultsShape ==
    (response # NoneV /\ response.kind = "render" /\ response.template = "results") =>
        LET er == response.energy_results IN
        /\ Has(er, "monthly_breakdown")
        /\ Has(er, "agri_revenue") /\ Has(er.v["agri_revenue"], "details")
        /\ Has(er, "mixed_analysis")
        /\ Has(er.v["mixed_analysis"], "scenarios")
        /\ Has(er.v["mixed_analysis"], "best_scenario")

\* C5: every bucket of the normalized monthly breakdown carries the five keys
\* month, energy, revenue, pv_energy_kwh and wind_energy_kwh, whatever keys
\* the input bucket supplied.
C5_BucketKeys ==
    (months_probe.stage \in {"once", "twice"} /\ months_probe.once # Raise) =>
        /\ Len(months_probe.once.v) = Len(months_probe.input.v)
        /\ \A i \in 1..Len(months_probe.once.v) :
              \A k \in MonthKeys : Has(months_probe.once.v[i], k)

C5_Witness ==
    /\ months_probe.stage = "once"
    /\ months_probe.once # Raise
    /\ Len(months_probe.input.v) = 2
    /\ months_probe.input.v[1] = EmptyDict
    /\ months_probe.input.v[2] = D([revenue_inr |-> I(3)])

\* C6: normalizing the normalized monthly breakdown again yields exactly the
\* same list of buckets.
C6_Idempotent ==
    months_probe.stage = "twice" => months_probe.twice = months_probe.once

C6_Witness ==
    /\ months_probe.stage = "twice"
    /\ Len(months_probe.input.v) = 2
    /\ months_probe.input.v[1] =
          D([pv_energy_kwh |-> I(2), wind_energy_kwh |-> I(1), revenue_inr |-> I(3)])
    /\ months_probe.input.v[2] = D([energy |-> I(7), pv_energy_kwh |-> I(2)])
    /\ months_probe.once # months_probe.input

\* C7: soil normalization gives every property whose raw value is a scalar
\* the three layers 0-5cm, 5-15cm and 15-30cm, each holding that scalar, keeps
\* a per-layer property unchanged, and neither adds nor drops a property.
C7_SoilBroadcast ==
    (soil_probe.stage = "normalized" /\ soil_probe.returned.t = "dict") =>
        LET raw == soil_probe.returned.v
            out == soil_probe.soil_data
        IN /\ out.t = "dict"
           /\ DOMAIN out.v = DOMAIN raw
           /\ \A prop \in DOMAIN raw :
                 IF raw[prop].t = "dict"
                 THEN out.v[prop] = raw[prop]
                 ELSE /\ out.v[prop].t = "dict"
                      /\ DOMAIN out.v[prop].v = {"0-5cm", "5-15cm", "15-30cm"}
                      /\ \A l \in DOMAIN out.v[prop].v : out.v[prop].v[l] = raw[prop]

C7_Witness ==
    /\ soil_probe.stage = "normalized"
    /\ soil_probe.returned =
          D([phh2o |-> I(6), clay |-> D([l \in {"0-5cm"} |-> I(4)])])
    /\ soil_probe.soil_data.v["phh2o"] = D([l \in Layers |-> I(6)])

\* C8: the optimizer is called only when the energy branch and the
\* soil-crop-agri branch both hold their final value, and it is called with
\* exactly those values: the normalized energy results and the agri revenue
\* that the stored document is then built from.
C8_OptimizerLast ==
    \A r \in RunIds :
        LET f == runs[r]
            a == f.mixed_args
        IN (a # NotCalled \/ f.mixed_ret # NotCalled) =>
              /\ a # NotCalled
              /\ f.pc \in {"save", "redirect_results"}
              /\ f.energy_ret # NotCalled /\ f.agri_ret # NotCalled
              /\ f.crop_ret # NotCalled /\ f.soil_ret # NotCalled
              /\ a.agri_revenue = f.agri_revenue
              /\ a.area_ha = f.area_ha
              /\ \A k \in {"total_energy_kwh", "pv_energy_kwh", "wind_energy_kwh",
                           "total_revenue", "hourly_plot", "daily_plot"} :
                     Has(a.energy_results, k)
              /\ Get(a.energy_results, "monthly_breakdown", Absent)
                    = NormalizeMonthly(Get(Guarded(f.energy_ret, EmptyDict),
                                           "monthly_breakdown", EmptyList))
              /\ f.pc = "save" => a.energy_results = f.energy_results
              /\ Completed(r) =>
                    analyses[f.id].energy_results =
                        SetItem(SetItem(a.energy_results,
                                        "agri_revenue", a.agri_revenue),
                                "mixed_analysis", f.mixed_analysis)

C8_Witness ==
    /\ runs[1].pc = "save"
    /\ runs[1].mixed_args # NotCalled
    /\ runs[1].energy_ret \notin {Raise, NoneV}
    /\ runs[1].agri_ret = D([details |-> L(<<S("wheat")>>), total_revenue |-> I(6)])
    /\ runs[1].mixed_args.agri_revenue = runs[1].agri_ret

\* the energy estimator failed, or returned a result the run normalized
EnergyOutcome(f) == EnergyFailed(f) \/ f.pc \in {"agri", "mixed", "save", "redirect_results"}

\* C9: two runs on the same analysis with the same soil data, one with the
\* energy estimator failing and one with it succeeding, call the agri revenue
\* estimator with the same crop_recommendations and area_ha and store the
\* same agri_revenue.
C9_AgriIndependent ==
    (Finished(1) /\ Finished(2)
        /\ runs[1].soil_ret = runs[2].soil_ret
        /\ EnergyOutcome(runs[1]) /\ EnergyOutcome(runs[2])) =>
        /\ Completed(1) /\ Completed(2)
        /\ runs[1].agri_args # NotCalled
        /\ runs[1].agri_args = runs[2].agri_args
        /\ Get(runs[1].analysis.energy_results, "agri_revenue", Absent)
              = Get(runs[2].analysis.energy_results, "agri_revenue", Absent)
        /\ Get(analyses[1].energy_results, "agri_revenue", Absent)
              = Get(runs[1].analysis.energy_results, "agri_revenue", Absent)

C9_Witness ==
    /\ Completed(1) /\ Completed(2)
    /\ runs[1].energy_ret = Raise
    /\ runs[2].energy_ret.t = "dict"
    /\ runs[1].analysis.area_ha = I(2)
    /\ runs[1].crop_ret = L(<<S("wheat")>>)
    /\ runs[2].agri_args.crop_recommendations = L(<<S("wheat")>>)

\* C10: the stages of ProcessAnalysisView.get only ever run for an analysis
\* record whose inputs passed validation, however the record came to exist.
C10_OnlyValidated ==
    \A r \in RunIds :
        runs[r].pc \notin {"idle", "redirect_index"} \/ runs[r].soil_ret # NotCalled
            => (runs[r].analysis # NoneV /\ runs[r].analysis.validated)

Positive(v) == v.t \in {"int"} /\ v.v > 0

\* ha hectares are m2 square metres: ha * 10000 = m2
SameArea(m2, ha) ==
    /\ m2.t = "int"
    /\ CASE ha.t = "float" -> ha.n * 10000 = m2.v * ha.d
         [] ha.t = "int" -> ha.v * 10000 = m2.v
         [] OTHER -> FALSE

\* C11: the area_m2 passed to the energy estimator and the area_ha passed to
\* the agri estimator and to the optimizer satisfy area_m2 = area_ha * 10000,
\* also when the stored areas disagree, and both are zero when neither stored
\* area is positive.
C11_AreaUnits ==
    \A r \in RunIds :
        LET f == runs[r] IN
        f.energy_args # NotCalled =>
            /\ SameArea(f.energy_args.area_m2, f.area_ha)
            /\ f.agri_args # NotCalled =>
                  SameArea(f.energy_args.area_m2, f.agri_args.area_ha)
            /\ f.mixed_args # NotCalled =>
                  SameArea(f.energy_args.area_m2, f.mixed_args.area_ha)
            /\ (~Positive(f.analysis.area_m2) /\ ~Positive(f.analysis.area_ha)) =>
                  /\ f.energy_args.area_m2 = I(0)
                  /\ f.area_ha = I(0)

C11_Witness ==
    /\ runs[1].mixed_args # NotCalled
    /\ runs[1].analysis.area_m2 = I(5000)
    /\ runs[1].analysis.area_ha = I(2)
    /\ runs[1].energy_args.area_m2 = I(5000)
    /\ runs[1].mixed_args.area_ha = Q(5000, 10000)

CropFailed(f) ==
    f.crop_ret # NotCalled /\ (f.crop_ret = Raise \/ ~Truthy(f.crop_ret))

AgriFailed(f) ==
    f.agri_ret # NotCalled /\ (f.agri_ret = Raise \/ ~Truthy(f.agri_ret))

\* C12: when recommend_crops raises or returns nothing, crop_recommendations
\* is the empty sequence, the run is not aborted, the energy, agri and
\* optimizer stages run, and the agri estimator receives the empty sequence.
C12_CropFailureNeverBlocks ==
    \A r \in RunIds :
        LET f == runs[r] IN
        CropFailed(f) =>
            /\ f.crop_recommendations = EmptyList
            /\ f.analysis.crop_recommendations = EmptyList
            /\ f.pc # "redirect_index"
            /\ f.agri_args # NotCalled => f.agri_args.crop_recommendations = EmptyList
            /\ Finished(r) =>
                  /\ f.energy_ret # NotCalled
                  /\ f.agri_ret # NotCalled
                  /\ f.mixed_ret # NotCalled

\* C13: when the agri revenue estimator raises or returns nothing, the
\* agri_revenue of the stored document has an empty details list and an
\* aggregate revenue of zero.
C13_AgriDefault ==
    \A r \in RunIds :
        (Completed(r) /\ AgriFailed(runs[r])) =>
            LET ag == Get(analyses[runs[r].id].energy_results, "agri_revenue", EmptyDict)
            IN /\ Get(ag, "details", Absent) = EmptyList
               /\ \E k \in DOMAIN ag.v \ {"details"} : ag.v[k] = I(0)

\* C16: in a normalized bucket energy is the supplied energy when present and
\* otherwise pv_energy_kwh + wind_energy_kwh with an absent component as 0;
\* revenue is the supplied revenue, otherwise revenue_inr, otherwise 0;
\* pv_energy_kwh and wind_energy_kwh default to 0 and month to "".
C16_BucketDefaults ==
    (months_probe.stage \in {"once", "twice"} /\ months_probe.once # Raise) =>
        \A i \in 1..Len(months_probe.input.v) :
            LET in == months_probe.input.v[i].v
                out == months_probe.once.v[i].v
                pv == IF "pv_energy_kwh" \in DOMAIN in THEN in["pv_energy_kwh"] ELSE I(0)
                wind == IF "wind_energy_kwh" \in DOMAIN in
                        THEN in["wind_energy_kwh"] ELSE I(0)
            IN /\ out["pv_energy_kwh"] = pv
               /\ out["wind_energy_kwh"] = wind
               /\ out["month"] = IF "month" \in DOMAIN in THEN in["month"] ELSE S("")
               /\ out["energy"] = IF "energy" \in DOMAIN in THEN in["energy"]
                                  ELSE I(pv.v + wind.v)
               /\ out["revenue"] = IF "revenue" \in DOMAIN in THEN in["revenue"]
                                   ELSE IF "revenue_inr" \in DOMAIN in
                                   THEN in["revenue_inr"] ELSE I(0)

C16_Witness ==
    /\ months_probe.stage = "once"
    /\ Len(months_probe.input.v) = 2
    /\ months_probe.input.v[1] = D([wind_energy_kwh |-> I(1), revenue_inr |-> I(3)])
    /\ months_probe.input.v[2] =
          D([energy |-> I(7), pv_energy_kwh |-> I(2), revenue |-> I(4),
             revenue_inr |-> I(3)])
    /\ months_probe.once # Raise
    /\ months_probe.once.v[1].v["energy"] = I(1)
    /\ months_probe.once.v[2].v["revenue"] = I(4)

\* C14: when the optimizer answers, the stored mixed_analysis has one scenario
\* for each f in {0, 1/4, 1/2, 3/4, 1} with revenue f * energy total_revenue +
\* (1 - f) * agri aggregate revenue, and best_scenario is one of them with the
\* largest revenue; for 1000 and 600 the revenues at f = 1, 0 and 1/2 are
\* 1000, 600 and 800 and best_scenario is f = 1.
C14_Scenarios ==
    \A r \in RunIds :
        (Completed(r) /\ runs[r].mixed_ret.t = "dict") =>
            LET doc == analyses[runs[r].id].energy_results.v
                energy == doc["total_revenue"].v
                agri == doc["agri_revenue"].v["aggregate_revenue"].v
                sc == doc["mixed_analysis"].v["scenarios"].v
                best == doc["mixed_analysis"].v["best_scenario"]
            IN /\ Len(sc) = 5
               /\ \A i \in 1..5 :
                     /\ sc[i].v["energy_fraction"] = Q(i - 1, 4)
                     /\ sc[i].v["revenue"] = Q((i - 1) * energy + (5 - i) * agri, 4)
               /\ \E i \in 1..5 :
                     /\ best = sc[i]
                     /\ \A j \in 1..5 : sc[i].v["revenue"].n >= sc[j].v["revenue"].n
               /\ (energy = 1000 /\ agri = 600) =>
                     /\ sc[5].v["revenue"].n = 4 * 1000
                     /\ sc[1].v["revenue"].n = 4 * 600
                     /\ sc[3].v["revenue"].n = 4 * 800
                     /\ best.v["energy_fraction"] = Q(4, 4)

C14_Witness ==
    /\ Completed(1)
    /\ runs[1].mixed_args.energy_results.v["total_revenue"] = I(1000)
    /\ runs[1].mixed_args.agri_revenue.v["aggregate_revenue"] = I(600)
    /\ analyses[1].energy_results.v["mixed_analysis"].v["best_scenario"] =
          D([energy_fraction |-> Q(4, 4), revenue |-> Q(4000, 4)])

\* the revenue a stored section reports; a section without the entry reports none
ZeroRevenue(section, k) ==
    section.t = "dict" /\ (k \in DOMAIN section.v => section.v[k] = I(0))

\* C15: when the energy revenue and the agri revenue of a run are both zero,
\* the stored mixed_analysis has every scenario at zero revenue and its
\* best_scenario is the f = 0.5 scenario.
C15_DegenerateBest ==
    \A r \in RunIds :
        LET doc == analyses[runs[r].id].energy_results IN
        (/\ Completed(r)
         /\ ZeroRevenue(doc, "total_revenue")
         /\ ZeroRevenue(doc.v["agri_revenue"], "aggregate_revenue")) =>
            LET ma == doc.v["mixed_analysis"].v IN
            /\ \A i \in 1..Len(ma["scenarios"].v) : ma["scenarios"].v[i].v["revenue"].n = 0
            /\ ma["best_scenario"] = D([energy_fraction |-> Q(Half, 4), revenue |-> Q(0, 4)])

\* C17: with requests handled one at a time every proposal has at most one
\* bond, a request that reaches create_bond for a proposal that has a bond
\* ends without touching the bonds, and a bond once created keeps its content.
C17_AtMostOneBond ==
    [][/\ \A i \in 1..Len(bonds) : i <= Len(bonds') /\ bonds'[i] = bonds[i]
       /\ \A i, j \in 1..Len(bonds') : bonds'[i].proposal = bonds'[j].proposal => i = j
       /\ (/\ posts[1].pc = "bond_check"
           /\ \E i \in 1..Len(bonds) : bonds[i].proposal = posts[1].pid) =>
             (bonds' = bonds /\ posts'[1].pc = "redirect")
       /\ posts'[1].pc # "error"]_vars

C17_Witness ==
    /\ posts[1].pc = "redirect"
    /\ posts[1].action = "choose_builder"
    /\ posts[1].pid = 1
    /\ Len(bonds) = 1
    /\ bonds[1].proposal = 1
    /\ bonds[1].content.investment = S("self_invest")
    /\ proposals[1].investment_choice = S("builder_invest")

\* C18: however two requests on one proposal interleave, the proposal never
\* has two bonds.
C18_NoTwoBonds ==
    \A i, j \in 1..Len(bonds) : bonds[i].proposal = bonds[j].proposal => i = j

C18_Witness ==
    /\ posts[1].user = proposals[1].landowner
    /\ posts[2].user = proposals[1].landowner
    /\ posts[1].action = "choose_self"
    /\ posts[2].action = "choose_builder"
    /\ posts[1].pc = "redirect"
    /\ posts[2].pc = "error"
    /\ Len(bonds) = 1

\* C19: a bond is created for a proposal only while the stored status of that
\* proposal is accepted, never while it is pending_builder or rejected.
C19_BondOnlyWhenAccepted ==
    [][Len(bonds') > Len(bonds) =>
          proposals[bonds'[Len(bonds')].proposal].status = "accepted"]_vars

\* C20: status and builder_response_message of a proposal change only in a
\* request by its builder, investment_choice changes and a bond appears only in
\* a request by its landowner, and a request by anyone else, or with an action
\* its branch does not know, changes no proposal and no bond.
C20_RoleSeparation ==
    [][LET req == posts[1] IN
       /\ \A pid \in 1..Len(proposals) :
             LET old == proposals[pid]
                 new == proposals'[pid]
                 acting == req.pc # "idle" /\ req.pid = pid
                 bonded == /\ \E i \in 1..Len(bonds') : bonds'[i].proposal = pid
                           /\ ~\E i \in 1..Len(bonds) : bonds[i].proposal = pid
             IN /\ (\/ new.status # old.status
                    \/ new.builder_response_message # old.builder_response_message)
                      => (acting /\ req.user = old.builder)
                /\ (new.investment_choice # old.investment_choice \/ bonded)
                      => (acting /\ req.user = old.landowner)
       /\ req.pc \notin {"idle", "404"} =>
             LET target == proposals[req.pid]
                 known == \/ /\ req.user = target.builder
                             /\ req.action \in {"accept", "reject"}
                          \/ /\ req.user = target.landowner
                             /\ req.action \in {"choose_self", "choose_builder"}
             IN ~known => (proposals' = proposals /\ bonds' = bonds)
       /\ req.pc = "404" => (proposals' = proposals /\ bonds' = bonds)]_vars

C20_Witness ==
    /\ Len(proposals) = 1
    /\ proposals[1].status = "accepted"
    /\ proposals[1].investment_choice = S("self_invest")
    /\ Len(bonds) = 1
    /\ posts[1].pc = "redirect"
    /\ posts[1].pid = 1
    /\ posts[1].action = "reject"
    /\ posts[1].user \notin {proposals[1].builder, proposals[1].landowner}

Statuses == {"pending_builder", "accepted", "rejected"}

\* C21: a proposal is created with status pending_builder, its status is
\* always pending_builder, accepted or rejected, and a proposal that has left
\* pending_builder is never pending_builder again.
C21_StatusLifecycle ==
    [][\A pid \in 1..Len(proposals') :
          /\ proposals'[pid].status \in Statuses
          /\ pid > Len(proposals) => proposals'[pid].status = "pending_builder"
          /\ (pid <= Len(proposals) /\ proposals[pid].status # "pending_builder")
                => proposals'[pid].status # "pending_builder"]_vars

C21_Witness ==
    /\ Len(proposals) = 1
    /\ proposals[1].status = "rejected"
    /\ proposals[1].investment_choice = S("self_invest")
    /\ posts[1].pc = "redirect"
    /\ posts[1].pid = 1
    /\ posts[1].user = proposals[1].builder
    /\ posts[1].action = "other"
    /\ posts[1].proposal.status = "rejected"

RowsOf(table, land_id) ==
    {id \in AnalysisIds : table[id] # NoRow /\ table[id].land = S(land_id)}

\* C22: a SubmitProposalView.post request creates a Proposal only when the
\* requester is a landowner, a land is selected, the form is valid and the
\* requester owns the land; otherwise no Proposal and no LandAnalysis is
\* created; a LandAnalysis that exists for the land is reused, never doubled.
C22_SubmitCreates ==
    [][\A user \in Users, builder_id \in BuilderIds, land_id \in LandIds,
          valid \in BOOLEAN :
          SubmitProposal(user, builder_id, land_id, valid, MaxSubmits) =>
             LET allowed == /\ Role(user) = "landowner"
                            /\ land_id # ""
                            /\ valid
                            /\ land_id \in Lands
                            /\ Owner(land_id) = user
                 created == Len(proposals') > Len(proposals)
             IN /\ created => allowed
                /\ ~allowed => (proposals' = proposals /\ analyses' = analyses)
                /\ created =>
                      /\ Len(proposals') = Len(proposals) + 1
                      /\ SubSeq(proposals', 1, Len(proposals)) = proposals
                      /\ proposals'[Len(proposals')].landowner = user
                      /\ proposals'[Len(proposals')].land_analysis \in RowsOf(analyses', land_id)
                /\ RowsOf(analyses, land_id) # {} => analyses' = analyses
                /\ \A l \in Lands : Cardinality(RowsOf(analyses', l)) <= 1
                /\ \A id \in AnalysisIds :
                      analyses[id] # NoRow => analyses'[id] = analyses[id]]_vars

C22_Witness ==
    /\ Len(proposals) = 2
    /\ proposals[1].landowner = "alice"
    /\ proposals[2].landowner = "alice"
    /\ proposals[1].builder # proposals[2].builder
    /\ proposals[1].land_analysis = proposals[2].land_analysis
    /\ RowsOf(analyses, "L1") = {proposals[1].land_analysis}
    /\ \E id \in AnalysisIds : analyses[id] # NoRow /\ analyses[id].land = NoneV

\* C23: a run writes the analysis record at most once, in the step that
\* follows the last stage; a run that aborts (unknown id or an uncaught
\* error) has written nothing, so the stored record is as it was.
C23_SaveOnceAtEnd ==
    [][/\ \A id \in AnalysisIds :
             analyses'[id] # analyses[id] =>
                \E r \in RunIds :
                   /\ runs[r].id = id
                   /\ runs[r].pc = "save"
                   /\ runs[r].saves = 0
                   /\ runs'[r].saves = 1
                   /\ runs'[r].pc = "redirect_results"
                   /\ runs[r].soil_ret # NotCalled
                   /\ runs[r].crop_recommendations # Unset
                   /\ runs[r].energy_results # Unset
                   /\ runs[r].agri_revenue # Unset
                   /\ runs[r].mixed_analysis # Unset
                   /\ analyses'[id] = runs'[r].analysis
       /\ \A r \in RunIds :
             /\ runs'[r].saves <= 1
             /\ runs'[r].pc = "redirect_index" =>
                   (runs'[r].saves = 0 /\ analyses' = analyses)]_vars

C23_Witness ==
    /\ runs[1].pc = "redirect_index"
    /\ runs[1].exc = "Exception"
    /\ runs[1].saves = 0
    /\ runs[1].energy_ret # NotCalled
    /\ runs[1].analysis.soil_data # NoneV
    /\ runs[1].analysis.crop_recommendations = L(<<S("wheat")>>)
    /\ analyses[1].soil_data = NoneV
    /\ analyses[1].crop_recommendations = NoneV
    /\ analyses[1].energy_results = NoneV

====
